---- MODULE Spec2Model ----
(***************************************************************************)
(* Model of download_images.py: the batch image fetcher.  The script       *)
(* ensures the asset root directory, then walks the catalog brand by brand *)
(* and model by model; for every model it asks the image-search provider   *)
(* for a thumbnail URL (fetch_image_url) and, when it got one, downloads   *)
(* it to the model's configured path (download_image).                     *)
(*                                                                         *)
(* The environment (the two HTTP servers, the filesystem's willingness to  *)
(* create, open and write) is nondeterministic: every action draws the     *)
(* outcome of its I/O from a bounded set.  Printed lines are kept as the   *)
(* format text plus the sequence of interpolated strings.                  *)
(***************************************************************************)
EXTENDS Integers, Sequences, FiniteSets, TLC

VARIABLES
    pc,         \* position of the script: makedirs, fetch, download, done, aborted
                \* (and, where a blocking call is shown as two steps, fetching
                \* and downloading: inside requests.get and what follows it)
    bi,         \* index of the current brand in the outer loop
    mi,         \* index of the current model in the inner loop
    image_url,  \* value returned by the last fetch_image_url call
    dirState,   \* what is at image_dir: "absent", "dir" or "file"
    fs,         \* the files under image_dir: path -> [exists, data]
    out,        \* the lines printed so far
    http,       \* history of the HTTP requests issued, with what came back
    inflight,   \* the HTTP requests sent and not yet answered or given up
    resp,       \* history: the answer to the latest HTTP request
    mkdirs,     \* history: number of times the directory was created
    fs0         \* history: the files as they were when the run started

vars == <<pc, bi, mi, image_url, dirState, fs, out, http, inflight, resp, mkdirs, fs0>>

----------------------------------------------------------------------------
(* Bounds of the model *)

\* number of catalog entries the run walks (the script's catalog has 173 in 25 brands)
MaxEntries == 3
\* largest number of bytes in a download body
MaxBody == 2

(* Program constants *)

HTTP_OK == 200
ChunkSize == 1024
SERPAPI_KEY == "8fd8e4fcce08f42d093496b0faf0377d27a15f18a84caf1f23f0be36976e3cb0"
image_dir == "src/assets/car_images"

\* Python's None, as returned by dict.get for a missing key and by a
\* function that falls off its end
None == "<None>"

----------------------------------------------------------------------------
(* The catalog.  It is pure data; the model keeps the first two models of  *)
(* each of the first three brands and walks the first MaxEntries of them,  *)
(* in catalog order.                                                       *)

car_database_excerpt ==
    << [brand |-> "Toyota", models |-> <<
          [name |-> "Corolla", releaseYear |-> 1966,
           image |-> "src/assets/car_images/toyota_corolla.jpg"],
          [name |-> "Camry", releaseYear |-> 1982,
           image |-> "src/assets/car_images/toyota_camry.jpg"] >>],
       [brand |-> "Ford", models |-> <<
          [name |-> "F-150", releaseYear |-> 1948,
           image |-> "src/assets/car_images/ford_f150.jpg"],
          [name |-> "Mustang", releaseYear |-> 1964,
           image |-> "src/assets/car_images/ford_mustang.jpg"] >>],
       [brand |-> "Honda", models |-> <<
          [name |-> "Civic", releaseYear |-> 1972,
           image |-> "src/assets/car_images/honda_civic.jpg"],
          [name |-> "Accord", releaseYear |-> 1976,
           image |-> "src/assets/car_images/honda_accord.jpg"] >>] >>

Min(a, b) == IF a < b THEN a ELSE b

RECURSIVE CountBefore(_, _)
\* number of models in the first k brands of db
CountBefore(db, k) ==
    IF k = 0 THEN 0 ELSE CountBefore(db, k - 1) + Len(db[k].models)

\* the catalog the run walks: the first MaxEntries entries of the excerpt,
\* brand by brand
car_database ==
    LET db == car_database_excerpt
        Keep(k) == Min(Len(db[k].models), MaxEntries - CountBefore(db, k - 1))
        nb == Cardinality({k \in 1..Len(db) : Keep(k) > 0})
    IN  [k \in 1..nb |->
            [brand |-> db[k].brand, models |-> SubSeq(db[k].models, 1, Keep(k))]]

BrandOf(e) == car_database[e[1]].brand
ModelOf(e) == car_database[e[1]].models[e[2]].name
PathOf(e) == car_database[e[1]].models[e[2]].image

\* the (brand index, model index) pairs in the order the nested for loops
\* visit them, from position (b, m) on
RECURSIVE CatalogOrderFrom(_, _)
CatalogOrderFrom(b, m) ==
    IF b > Len(car_database) THEN <<>>
    ELSE IF m > Len(car_database[b].models) THEN CatalogOrderFrom(b + 1, 1)
    ELSE <<(<<b, m>>)>> \o CatalogOrderFrom(b, m + 1)

CatalogOrder == CatalogOrderFrom(1, 1)

Entries == {CatalogOrder[i] : i \in 1..Len(CatalogOrder)}
Paths == {PathOf(e) : e \in Entries}

\* position of entry e in the catalog order
IndexOf(e) == CHOOSE i \in 1..Len(CatalogOrder) : CatalogOrder[i] = e

----------------------------------------------------------------------------
(* Values *)

\* a truthiness test written as "is not None"
Truthy_IsNotNone(v) == v # None

\* Python truthiness of a value that is None or a string
Truthy(v) == v # None /\ v # ""

\* the thumbnail URLs the provider hands out
FirstUrl == "http://x/img.jpg"
OtherUrl == "http://x/other.jpg"

\* bytes of a served image, bytes of an image left by an earlier run
ImageBytes == <<74, 80, 69, 71, 68, 65, 84, 65>>
OldBytes == <<79, 76, 68, 33>>

NoFile == [exists |-> FALSE, data |-> <<>>]
File(d) == [exists |-> TRUE, data |-> d]

RECURSIVE Sum(_)
Sum(s) == IF s = <<>> THEN 0 ELSE s[1] + Sum(Tail(s))

\* the ways a stream of n bytes arrives in non-empty chunks of at most
\* ChunkSize bytes
Chunkings(n) ==
    {s \in UNION {[1..k -> 1..Min(n, ChunkSize)] : k \in 0..n} : Sum(s) = n}

----------------------------------------------------------------------------
(* Printed lines: the f-string's fixed text and its interpolated values *)

Line(fmt, args) == [fmt |-> fmt, args |-> args]

Downloaded(path) == Line("Downloaded: {path}", <<path>>)
FailedToDownload(url, status) ==
    Line("Failed to download {url}: {status_code}", <<url, ToString(status)>>)
ErrorDownloading(url, e) == Line("Error downloading {url}: {e}", <<url, e>>)
NoImageFound(brand, model) ==
    Line("No image found for {brand} {model}", <<brand, model>>)
ErrorFetching(brand, model, e) ==
    Line("Error fetching image URL for {brand} {model}: {e}", <<brand, model, e>>)

\* line l interpolates the string v
References(l, v) == \E i \in 1..Len(l.args) : l.args[i] = v

----------------------------------------------------------------------------
(* What the environment can answer *)

SearchStatuses == {200, 500}
DownloadStatuses == {200, 404}

Result(u) == [has_thumbnail |-> TRUE, thumbnail |-> u]
NoThumbnail == [has_thumbnail |-> FALSE, thumbnail |-> None]

ResultLists ==
    { <<>>, <<NoThumbnail>>, <<Result("")>>, <<Result(FirstUrl)>>,
      <<Result(FirstUrl), Result(OtherUrl)>>, <<NoThumbnail, Result(OtherUrl)>> }

\* what requests.get(url) and response.json() give the resolver:
\* ok = a response arrived, json_ok = its body parses, has_key = the
\* document has an images_results field.  An answer with another status
\* than 200 carries an unparsable body, a document without results, or (a
\* misbehaving provider) a document with a result.
SearchResponses ==
    { [ok |-> FALSE, exc |-> "ConnectionError", status |-> 0, json_ok |-> FALSE,
       has_key |-> FALSE, results |-> <<>>] }
    \cup
    { [ok |-> TRUE, exc |-> "JSONDecodeError", status |-> s, json_ok |-> FALSE,
       has_key |-> FALSE, results |-> <<>>] : s \in SearchStatuses }
    \cup
    { [ok |-> TRUE, exc |-> "", status |-> s, json_ok |-> TRUE,
       has_key |-> FALSE, results |-> <<>>] : s \in SearchStatuses }
    \cup
    { [ok |-> TRUE, exc |-> "", status |-> HTTP_OK, json_ok |-> TRUE,
       has_key |-> TRUE, results |-> l] : l \in ResultLists }
    \cup
    { [ok |-> TRUE, exc |-> "", status |-> s, json_ok |-> TRUE,
       has_key |-> TRUE, results |-> <<Result(FirstUrl)>>] : s \in SearchStatuses }

\* what requests.get(url, stream=True), open(path, "wb") and the streaming
\* loop give the downloader: the body arrives as chunks of the given sizes
\* (it is streamed only after a 200 and a successful open); open_ok = the destination could be opened;
\* stream_ok = no transport or write error; written = chunks written when
\* the error struck
DownloadResponses ==
    { [ok |-> FALSE, exc |-> "ConnectionError", status |-> 0, body |-> <<>>,
       sizes |-> <<>>, open_ok |-> FALSE, stream_ok |-> FALSE, written |-> 0] }
    \cup
    UNION { UNION {
      { [ok |-> TRUE, exc |-> "PermissionError", status |-> s,
         body |-> SubSeq(ImageBytes, 1, n),
         sizes |-> <<>>, open_ok |-> FALSE, stream_ok |-> FALSE, written |-> 0] }
      \cup
      UNION {
        { [ok |-> TRUE, exc |-> "", status |-> s, body |-> SubSeq(ImageBytes, 1, n),
           sizes |-> z, open_ok |-> TRUE, stream_ok |-> TRUE, written |-> Len(z)] }
        \cup
        { [ok |-> TRUE, exc |-> "ChunkedEncodingError", status |-> s,
           body |-> SubSeq(ImageBytes, 1, n),
           sizes |-> z, open_ok |-> TRUE, stream_ok |-> FALSE, written |-> w] :
             w \in 0..Len(z) }
        : z \in IF s = HTTP_OK THEN Chunkings(n) ELSE {<<>>} }
      : n \in 0..MaxBody } : s \in DownloadStatuses }

----------------------------------------------------------------------------
(* Query URL Builder: the pieces the f-strings join *)

Query(brand, model) == <<brand, " ", model>>

SearchUrl(brand, model, api_key) ==
    <<"https://serpapi.com/search.json?q=">> \o Query(brand, model) \o
    <<"&engine=google_images&ijn=0&api_key=", api_key>>

----------------------------------------------------------------------------
(* Image URL Resolver *)

\* dict.get(key) of a search result
GetThumbnail(result) == IF result.has_thumbnail THEN result.thumbnail ELSE None

\* fetch_image_url(brand, model, api_key) when the provider answers r:
\* the value returned and the lines printed
fetch_image_url(brand, model, r) ==
    IF ~r.ok
    THEN [ret |-> None, lines |-> <<ErrorFetching(brand, model, r.exc)>>]
    ELSE IF r.status = HTTP_OK /\ ~r.json_ok
    THEN [ret |-> None, lines |-> <<ErrorFetching(brand, model, r.exc)>>]
    ELSE LET images_results == IF r.has_key THEN r.results ELSE <<>>
         IN  IF r.status = HTTP_OK /\ images_results # <<>>
             THEN [ret |-> GetThumbnail(images_results[1]), lines |-> <<>>]
             ELSE [ret |-> None, lines |-> <<NoImageFound(brand, model)>>]

----------------------------------------------------------------------------
(* Image Downloader *)

\* response.iter_content(1024): the body cut into the chunks that arrive
RECURSIVE iter_content(_, _)
iter_content(body, sizes) ==
    IF sizes = <<>> THEN <<>>
    ELSE <<SubSeq(body, 1, sizes[1])>> \o
         iter_content(SubSeq(body, sizes[1] + 1, Len(body)), Tail(sizes))

\* file.write(chunk) for the first k chunks, onto a file holding data
RECURSIVE WriteChunks(_, _, _)
WriteChunks(data, chunks, k) ==
    IF k = 0 \/ chunks = <<>> THEN data
    ELSE WriteChunks(data \o chunks[1], Tail(chunks), k - 1)

\* a status test written as "if response.status_code:"
DownloadStatusOk_Truthy(status) == status # 0

\* response.status_code == 200
DownloadStatusOk(status) == status = HTTP_OK

\* the destination opened for appending
open_ab(f) == File(f.data)

\* open(path, "wb"): the file is created, or truncated if it was there
open_wb(f) == File(<<>>)

\* download_image(url, path) when the image host answers r and the file at
\* path is f: the file afterwards and the lines printed
download_image(url, path, f, r) ==
    IF ~r.ok
    THEN [file |-> f, lines |-> <<ErrorDownloading(url, r.exc)>>]
    ELSE IF ~DownloadStatusOk(r.status)
    THEN [file |-> f, lines |-> <<FailedToDownload(url, r.status)>>]
    ELSE IF ~r.open_ok
    THEN [file |-> f, lines |-> <<ErrorDownloading(url, r.exc)>>]
    ELSE LET chunks == iter_content(r.body, r.sizes)
             opened == open_wb(f)
         IN  IF r.stream_ok
             THEN [file |-> File(WriteChunks(opened.data, chunks, Len(chunks))),
                   lines |-> <<Downloaded(path)>>]
             ELSE [file |-> File(WriteChunks(opened.data, chunks, r.written)),
                   lines |-> <<ErrorDownloading(url, r.exc)>>]

----------------------------------------------------------------------------
(* The script *)

\* the answer to a request: ok = a response arrived; status, results (the
\* images_results list of a search) and body (cut in that many chunks) are
\* the response's; failed = an exception was raised after it arrived
Answer(kind, ok, status, results, body, chunks, failed) ==
    [kind |-> kind, ok |-> ok, status |-> status, results |-> results,
     body |-> body, chunks |-> chunks, failed |-> failed]

NoResponse == Answer("none", FALSE, 0, <<>>, <<>>, 0, FALSE)

\* the roots a run can start from: nothing at image_dir, a non-directory at
\* image_dir, an empty directory, or a directory in which an earlier run
\* left an image for every model
InitialFiles ==
    { [p \in Paths |-> NoFile], [p \in Paths |-> File(OldBytes)] }

Init ==
    /\ pc = "makedirs"
    /\ bi = 1
    /\ mi = 1
    /\ image_url = None
    /\ dirState \in {"absent", "file", "dir"}
    /\ fs \in IF dirState = "dir" THEN InitialFiles ELSE {[p \in Paths |-> NoFile]}
    /\ fs0 = fs
    /\ out = <<>>
    /\ http = <<>>
    /\ inflight = {}
    /\ resp = NoResponse
    /\ mkdirs = 0

\* where the nested for loops stand after the iteration at (b, m): the next
\* (brand, model) position, or <<0, 0>> when the catalog is exhausted
LoopNext(b, m) ==
    LET rest == CatalogOrderFrom(b, m + 1)
    IN  IF rest = <<>> THEN <<0, 0>> ELSE rest[1]

\* the for loops move on
Advance(b, m) ==
    LET n == LoopNext(b, m)
    IN  IF n = <<0, 0>>
        THEN pc' = "done" /\ UNCHANGED <<bi, mi>>
        ELSE pc' = "fetch" /\ bi' = n[1] /\ mi' = n[2]

\* the directory ensured inside a try whose except passes
makedirs_ErrorsIgnored ==
    /\ pc = "makedirs"
    /\ \/ /\ dirState = "dir"
          /\ UNCHANGED <<dirState, mkdirs>>
       \/ /\ dirState = "absent"
          /\ dirState' = "dir"
          /\ mkdirs' = mkdirs + 1
       \/ /\ dirState \in {"absent", "file"}
          /\ UNCHANGED <<dirState, mkdirs>>
    /\ pc' = "fetch"
    /\ UNCHANGED <<bi, mi, image_url, fs, out, http, inflight, resp, fs0>>

\* os.makedirs(image_dir) without exist_ok
makedirs_NoExistOk ==
    /\ pc = "makedirs"
    /\ \/ /\ dirState = "absent"
          /\ dirState' = "dir"
          /\ mkdirs' = mkdirs + 1
          /\ pc' = "fetch"
       \/ /\ dirState \in {"absent", "file", "dir"}
          /\ pc' = "aborted"
          /\ UNCHANGED <<dirState, mkdirs>>
    /\ UNCHANGED <<bi, mi, image_url, fs, out, http, inflight, resp, fs0>>

\* os.makedirs(image_dir, exist_ok=True) at module level; an exception here
\* is caught by nobody and ends the script
makedirs ==
    /\ pc = "makedirs"
    /\ \/ /\ dirState = "dir"
          /\ pc' = "fetch"
          /\ UNCHANGED <<dirState, mkdirs>>
       \/ /\ dirState = "absent"
          /\ dirState' = "dir"
          /\ mkdirs' = mkdirs + 1
          /\ pc' = "fetch"
       \/ /\ dirState \in {"absent", "file"}
          /\ pc' = "aborted"
          /\ UNCHANGED <<dirState, mkdirs>>
    /\ UNCHANGED <<bi, mi, image_url, fs, out, http, inflight, resp, fs0>>

\* the loop body with a retry: a search that got no response is tried again
FetchStep_Retry ==
    /\ pc = "fetch"
    /\ \E r \in SearchResponses :
         LET brand_name == BrandOf(<<bi, mi>>)
             model_name == ModelOf(<<bi, mi>>)
             res == fetch_image_url(brand_name, model_name, r)
         IN  /\ image_url' = res.ret
             /\ out' = out \o res.lines
             /\ http' = Append(http,
                    [kind |-> "search", entry |-> <<bi, mi>>,
                     url |-> SearchUrl(brand_name, model_name, SERPAPI_KEY),
                     ok |-> r.ok, status |-> r.status])
             /\ resp' = Answer("search", r.ok, r.status, r.results, <<>>, 0,
                                r.ok /\ r.status = HTTP_OK /\ ~r.json_ok)
             /\ IF ~r.ok
                THEN pc' = "fetch" /\ UNCHANGED <<bi, mi>>
                ELSE IF Truthy(res.ret)
                THEN pc' = "download" /\ UNCHANGED <<bi, mi>>
                ELSE Advance(bi, mi)
    /\ UNCHANGED <<dirState, fs, mkdirs, fs0, inflight>>

\* what fetch_image_url and the test of image_url do once the provider has
\* answered (or the request has failed)
FetchEffects ==
    /\ \E r \in SearchResponses :
         LET brand_name == BrandOf(<<bi, mi>>)
             model_name == ModelOf(<<bi, mi>>)
             res == fetch_image_url(brand_name, model_name, r)
         IN  /\ image_url' = res.ret
             /\ out' = out \o res.lines
             /\ http' = Append(http,
                    [kind |-> "search", entry |-> <<bi, mi>>,
                     url |-> SearchUrl(brand_name, model_name, SERPAPI_KEY),
                     ok |-> r.ok, status |-> r.status])
             /\ resp' = Answer("search", r.ok, r.status, r.results, <<>>, 0,
                                r.ok /\ r.status = HTTP_OK /\ ~r.json_ok)
             /\ IF Truthy(res.ret)
                THEN pc' = "download" /\ UNCHANGED <<bi, mi>>
                ELSE Advance(bi, mi)
    /\ UNCHANGED <<dirState, fs, mkdirs, fs0>>

\* one pass of the loop body up to the test of image_url
FetchStep ==
    /\ pc = "fetch"
    /\ FetchEffects
    /\ UNCHANGED inflight

\* download_image without its try/except: a transport or filesystem error
\* propagates out of the loop
DownloadStep_Uncaught ==
    /\ pc = "download"
    /\ \E r \in DownloadResponses :
         LET image_path == PathOf(<<bi, mi>>)
             res == download_image(image_url, image_path, fs[image_path], r)
             raised == ~r.ok \/ (r.status = HTTP_OK /\ ~(r.open_ok /\ r.stream_ok))
         IN  /\ fs' = [fs EXCEPT ![image_path] = res.file]
             /\ out' = IF raised THEN out ELSE out \o res.lines
             /\ http' = Append(http,
                    [kind |-> "download", entry |-> <<bi, mi>>,
                     url |-> <<image_url>>, ok |-> r.ok, status |-> r.status])
             /\ resp' = Answer("download", r.ok, r.status, <<>>, r.body, Len(r.sizes),
                                r.ok /\ r.status = HTTP_OK /\ ~(r.open_ok /\ r.stream_ok))
             /\ IF raised THEN pc' = "aborted" /\ UNCHANGED <<bi, mi>>
                ELSE Advance(bi, mi)
    /\ UNCHANGED <<image_url, dirState, mkdirs, fs0, inflight>>

\* what download_image does once the image host has answered (or the
\* request has failed), and the move to the next model
DownloadEffects ==
    /\ \E r \in DownloadResponses :
         LET image_path == PathOf(<<bi, mi>>)
             res == download_image(image_url, image_path, fs[image_path], r)
         IN  /\ fs' = [fs EXCEPT ![image_path] = res.file]
             /\ out' = out \o res.lines
             /\ http' = Append(http,
                    [kind |-> "download", entry |-> <<bi, mi>>,
                     url |-> <<image_url>>, ok |-> r.ok, status |-> r.status])
             /\ resp' = Answer("download", r.ok, r.status, <<>>, r.body, Len(r.sizes),
                                r.ok /\ r.status = HTTP_OK /\ ~(r.open_ok /\ r.stream_ok))
             /\ Advance(bi, mi)
    /\ UNCHANGED <<image_url, dirState, mkdirs, fs0>>

\* the rest of the loop body: download_image(image_url, image_path)
DownloadStep ==
    /\ pc = "download"
    /\ DownloadEffects
    /\ UNCHANGED inflight

Next == makedirs \/ FetchStep \/ DownloadStep

Spec == Init /\ [][Next]_vars

\* The script is one thread of blocking calls: a step that can be taken is
\* taken, provided every HTTP call returns (with a response or an exception).
FairSpec == Init /\ [][Next]_vars /\ WF_vars(Next)

----------------------------------------------------------------------------
(* The same script with every blocking requests.get shown as two steps:    *)
(* the request goes out, and later the call returns and the code after it  *)
(* runs.  Between the two the request is in flight.                        *)

Request(kind, e) == [kind |-> kind, entry |-> e]

\* fetch_image_url is entered and its requests.get(url) is sent
SearchIssue ==
    /\ pc = "fetch"
    /\ pc' = "fetching"
    /\ inflight' = inflight \cup {Request("search", <<bi, mi>>)}
    /\ UNCHANGED <<bi, mi, image_url, dirState, fs, out, http, resp, mkdirs, fs0>>

\* requests.get returns or raises; the rest of fetch_image_url and the test
\* of image_url run
SearchReturn ==
    /\ pc = "fetching"
    /\ FetchEffects
    /\ inflight' = inflight \ {Request("search", <<bi, mi>>)}

\* the download handed to a worker: the loop goes on without waiting for it
DownloadIssue_NoWait ==
    /\ pc = "download"
    /\ Advance(bi, mi)
    /\ inflight' = inflight \cup {Request("download", <<bi, mi>>)}
    /\ UNCHANGED <<image_url, dirState, fs, out, http, resp, mkdirs, fs0>>

\* download_image is entered and its requests.get(url, stream=True) is sent
DownloadIssue ==
    /\ pc = "download"
    /\ pc' = "downloading"
    /\ inflight' = inflight \cup {Request("download", <<bi, mi>>)}
    /\ UNCHANGED <<bi, mi, image_url, dirState, fs, out, http, resp, mkdirs, fs0>>

\* requests.get returns or raises; the body is streamed into the file, the
\* file is closed, download_image returns and the loop moves on
DownloadReturn ==
    /\ pc = "downloading"
    /\ DownloadEffects
    /\ inflight' = inflight \ {Request("download", <<bi, mi>>)}

SeqNext == makedirs \/ SearchIssue \/ SearchReturn \/ DownloadIssue \/ DownloadReturn

SeqSpec == Init /\ [][SeqNext]_vars

TypeOK ==
    /\ pc \in {"makedirs", "fetch", "fetching", "download", "downloading",
              "done", "aborted"}
    /\ <<bi, mi>> \in Entries
    /\ dirState \in {"absent", "file", "dir"}
    /\ \A p \in Paths : fs[p].exists \in BOOLEAN

----------------------------------------------------------------------------
(* Vocabulary of the properties *)

Last(s) == s[Len(s)]

NotFoundFmt == NoImageFound("", "").fmt
FetchErrorFmt == ErrorFetching("", "", "").fmt
DownloadFailedFmt == FailedToDownload("", 0).fmt
DownloadErrorFmt == ErrorDownloading("", "").fmt
SuccessFmt == Downloaded("").fmt

IsNotFoundOrError(l) ==
    l.fmt \in {NotFoundFmt, FetchErrorFmt, DownloadFailedFmt, DownloadErrorFmt}

\* the strings that are URLs
Urls == {FirstUrl, OtherUrl}

\* the entries whose search request has been issued, in the order of issue
RECURSIVE SearchedIn(_)
SearchedIn(h) ==
    IF h = <<>> THEN <<>>
    ELSE IF h[1].kind = "search" THEN <<h[1].entry>> \o SearchedIn(Tail(h))
    ELSE SearchedIn(Tail(h))

Searched == SearchedIn(http)

\* number of catalog entries whose iteration is over
Processed ==
    IF pc = "done" THEN Len(CatalogOrder)
    ELSE IF pc \in {"fetch", "download"} THEN IndexOf(<<bi, mi>>) - 1
    ELSE 0

\* the step just taken was a call of fetch_image_url / of download_image
FetchReturned == pc = "fetch" /\ Len(http') = Len(http) + 1
DownloadReturned == pc = "download" /\ Len(http') = Len(http) + 1

----------------------------------------------------------------------------
(* C1: once the run has completed, every catalog entry either has a        *)
(* non-empty file at its image path or a "not found" or error line that    *)
(* references its brand and its model name was printed.                    *)
(* The script does not keep this: a first result without a thumbnail makes *)
(* fetch_image_url return None without printing anything.                  *)
C1_NeverSilent ==
    pc = "done" =>
        \A e \in Entries :
            \/ fs[PathOf(e)].exists /\ fs[PathOf(e)].data # <<>>
            \/ \E i \in 1..Len(out) :
                 /\ IsNotFoundOrError(out[i])
                 /\ References(out[i], BrandOf(e))
                 /\ References(out[i], ModelOf(e))

----------------------------------------------------------------------------
(* C2: a per-item failure never stops the batch.  Whatever the outcomes of *)
(* the earlier entries, the search requests are issued in catalog order    *)
(* (a prefix of it at any time, each entry once); a run stops only before  *)
(* its first request (the directory step failed) or after the last entry,  *)
(* when every entry's search request has been issued; and every run does   *)
(* come to its end.                                                        *)
C2_BatchNeverStops ==
    /\ [](\E n \in 0..Len(CatalogOrder) : Searched = SubSeq(CatalogOrder, 1, n))
    /\ [](pc = "done" => Searched = CatalogOrder)
    /\ [](pc = "aborted" => http = <<>>)
    /\ <>[](pc \in {"done", "aborted"})

\* a finished run whose first search failed in transport and in which a
\* download failed after the response arrived
C2_Witness ==
    /\ pc = "done"
    /\ Searched = CatalogOrder
    /\ ~http[1].ok
    /\ resp.kind = "download" /\ resp.failed

----------------------------------------------------------------------------
(* C3: a download request is made for a model only when that model's       *)
(* search returned status 200 with a non-empty images_results list whose   *)
(* first entry carries a thumbnail URL, and the request is for that URL;   *)
(* after any other search outcome no download is made for the model.       *)
C3_DownloadOnlyWithUrl ==
    /\ pc = "download" =>
          /\ resp.kind = "search" /\ resp.ok /\ resp.status = 200
          /\ resp.results # <<>>
          /\ resp.results[1].has_thumbnail
          /\ resp.results[1].thumbnail \in Urls
          /\ image_url = resp.results[1].thumbnail
    /\ \A i \in 1..Len(http) :
          http[i].kind = "download" =>
             /\ i > 1
             /\ http[i - 1].kind = "search"
             /\ http[i - 1].entry = http[i].entry
             /\ http[i - 1].ok /\ http[i - 1].status = 200
             /\ \E u \in Urls : http[i].url = <<u>>
    /\ ( /\ resp.kind = "search"
         /\ \/ ~resp.ok
            \/ resp.status # 200
            \/ resp.failed
            \/ resp.results = <<>>
            \/ ~resp.results[1].has_thumbnail
            \/ resp.results[1].thumbnail \notin Urls )
       => (pc # "download" /\ Last(http).kind = "search")

\* a search whose first result has no thumbnail (a later one has) was
\* answered right after an earlier model was downloaded
C3_Witness ==
    /\ resp.kind = "search" /\ resp.ok /\ resp.status = 200
    /\ Len(resp.results) = 2 /\ ~resp.results[1].has_thumbnail
    /\ Len(http) = 3 /\ http[2].kind = "download"

----------------------------------------------------------------------------
(* C4: when the download request returns a status other than 200, the     *)
(* files are left exactly as they were before the call (nothing created,  *)
(* nothing altered) and one failure line with the URL and the status code *)
(* is printed.                                                            *)
C4_Non200LeavesFile ==
    [][ (DownloadReturned /\ resp'.ok /\ resp'.status # 200) =>
          /\ fs' = fs
          /\ Len(out') = Len(out) + 1
          /\ SubSeq(out', 1, Len(out)) = out
          /\ Last(out').fmt = DownloadFailedFmt
          /\ References(Last(out'), image_url)
          /\ References(Last(out'), ToString(resp'.status)) ]_vars

\* a download answered 404 for a model whose image was already there
C4_Witness ==
    /\ resp.kind = "download" /\ resp.ok /\ resp.status = 404
    /\ resp.body # <<>>
    /\ fs[PathOf(Last(http).entry)] = File(OldBytes)
    /\ Last(out) = FailedToDownload(FirstUrl, 404)

----------------------------------------------------------------------------
(* C5: when the search request returns a status other than 200, the        *)
(* resolver returns no URL, no file is written, exactly one error line     *)
(* that references the returned status code is printed, and the run moves  *)
(* on to the next model.                                                   *)
(* The script prints "No image found for <brand> <model>" there, which     *)
(* does not carry the status code.                                         *)
C5_SearchNon200Reported ==
    [][ (FetchReturned /\ resp'.ok /\ resp'.status # 200) =>
          /\ image_url' = None
          /\ fs' = fs
          /\ Len(out') = Len(out) + 1
          /\ References(Last(out'), ToString(resp'.status))
          /\ pc' \in {"fetch", "done"}
          /\ Processed' = Processed + 1 ]_vars

----------------------------------------------------------------------------
(* C6: every catalog entry is reported exactly once: whenever the loop is  *)
(* between two iterations or has ended, the number of lines printed is the *)
(* number of entries processed.                                            *)
(* The script prints nothing for an entry whose first search result has no *)
(* usable thumbnail.                                                       *)
C6_OneLinePerEntry ==
    pc \in {"fetch", "done"} => Len(out) = Processed

----------------------------------------------------------------------------
(* C7: when the search gave a thumbnail URL and its download returns 200   *)
(* with body B and no transport or filesystem error occurs, the file at    *)
(* the model's path then holds exactly B, whatever it held before and      *)
(* however B was cut into chunks, no other file changes, and one success   *)
(* line naming the path is printed.                                        *)
C7_FileHoldsBody ==
    [][ (DownloadReturned /\ resp'.ok /\ resp'.status = 200 /\ ~resp'.failed) =>
          /\ fs' = [fs EXCEPT ![PathOf(<<bi, mi>>)] = File(resp'.body)]
          /\ Len(out') = Len(out) + 1
          /\ SubSeq(out', 1, Len(out)) = out
          /\ Last(out').fmt = SuccessFmt
          /\ References(Last(out'), PathOf(<<bi, mi>>)) ]_vars

\* a body of several bytes that came in several chunks replaced an older
\* image
C7_Witness ==
    /\ resp.kind = "download" /\ resp.ok /\ resp.status = 200 /\ ~resp.failed
    /\ resp.chunks > 1
    /\ fs0[PathOf(Last(http).entry)] = File(OldBytes)
    /\ fs[PathOf(Last(http).entry)] = File(resp.body)
    /\ Last(out) = Downloaded(PathOf(Last(http).entry))

----------------------------------------------------------------------------
(* C8: a failed fetch or download leaves the entry without an image: if    *)
(* the root held no file for a model and no download of that model         *)
(* succeeded, no file exists at the model's path when the run has ended.   *)
(* The script opens (creates) the destination before it streams the body,  *)
(* and an error after that leaves the file with what was written so far.   *)
C8_FailureLeavesNoFile ==
    pc = "done" =>
        \A e \in Entries :
            ( /\ ~fs0[PathOf(e)].exists
              /\ ~\E i \in 1..Len(out) : out[i] = Downloaded(PathOf(e)) )
            => ~fs[PathOf(e)].exists

----------------------------------------------------------------------------
(* C9: the asset root directory exists before any search request, download *)
(* request or file write; if it cannot be ensured the run aborts before    *)
(* any catalog entry is processed, with no request issued, no file changed *)
(* and nothing printed, and a run aborts for no other reason.              *)
C9_DirectoryFirst ==
    /\ pc \in {"fetch", "download", "done"} => dirState = "dir"
    /\ (http # <<>> \/ fs # fs0 \/ out # <<>>) => dirState = "dir"
    /\ pc \in {"makedirs", "aborted"} =>
          (http = <<>> /\ fs = fs0 /\ out = <<>> /\ <<bi, mi>> = <<1, 1>>)
    /\ pc = "aborted" => dirState \in {"absent", "file"}

\* the run was aborted because image_dir is a non-directory
C9_Witness ==
    /\ pc = "aborted"
    /\ dirState = "file"
    /\ http = <<>>

----------------------------------------------------------------------------
(* C10: ensuring the directory is idempotent: when it already exists the   *)
(* step succeeds, creates nothing, leaves the files in it untouched, and   *)
(* the run goes on to the first catalog entry.                             *)
C10_EnsureIdempotent ==
    [][ (pc = "makedirs" /\ dirState = "dir") =>
          /\ pc' = "fetch"
          /\ <<bi', mi'>> = CatalogOrder[1]
          /\ dirState' = "dir"
          /\ mkdirs' = mkdirs
          /\ fs' = fs ]_vars

\* the run went past the directory step on a root that already held images
C10_Witness ==
    /\ pc = "fetch"
    /\ http = <<>>
    /\ mkdirs = 0
    /\ dirState = "dir"
    /\ \A p \in Paths : fs[p] = File(OldBytes)

----------------------------------------------------------------------------
(* C11: nothing is retried: in one run at most one search request and at   *)
(* most one download request are issued for a catalog entry, whatever came *)
(* back, so a run issues at most twice as many HTTP requests as there are  *)
(* catalog entries and no request that failed is issued again.             *)
C11_NoRetry ==
    /\ \A i, j \in 1..Len(http) :
          (http[i].kind = http[j].kind /\ http[i].entry = http[j].entry) => i = j
    /\ Len(http) <= 2 * Len(CatalogOrder)

\* a finished run in which one search got no response, one download was
\* answered 404 and every other request went through
C11_Witness ==
    /\ pc = "done"
    /\ Len(http) = 2 * Len(CatalogOrder) - 1
    /\ \E i \in 1..Len(http) : http[i].kind = "search" /\ ~http[i].ok
    /\ \E i \in 1..Len(http) :
          http[i].kind = "download" /\ http[i].ok /\ http[i].status = 404

----------------------------------------------------------------------------
(* C12: execution is strictly sequential.  At most one HTTP request is in  *)
(* flight; it belongs to the model the loop stands at; a search is in      *)
(* flight only when everything issued before it, for earlier models, has   *)
(* returned; a download is in flight only right after the search of the    *)
(* same model returned; and a file changes only in the step in which the   *)
(* download in flight returns, so that no two models' processing overlaps. *)
C12_Sequential ==
    /\ [] /\ Cardinality(inflight) <= 1
          /\ pc \in {"fetching", "downloading"} <=> inflight # {}
          /\ \A q \in inflight :
                /\ q.entry = <<bi, mi>>
                /\ q.kind = "search" =>
                      /\ pc = "fetching"
                      /\ \A i \in 1..Len(http) :
                            IndexOf(http[i].entry) < IndexOf(q.entry)
                /\ q.kind = "download" =>
                      /\ pc = "downloading"
                      /\ Last(http).kind = "search"
                      /\ Last(http).entry = q.entry
    /\ [][ /\ fs' # fs =>
               /\ inflight = {Request("download", <<bi, mi>>)}
               /\ inflight' = {}
           /\ Len(http') > Len(http) =>
               /\ inflight = {Request(Last(http').kind, Last(http').entry)}
               /\ inflight' = {} ]_vars

\* the download of the second model is in flight after the first model was
\* searched and downloaded
C12_Witness ==
    /\ pc = "downloading"
    /\ inflight = {Request("download", CatalogOrder[2])}
    /\ Len(http) = 3
    /\ http[2].kind = "download"

====
